---- MODULE Spec2Model ----
(***************************************************************************)
(* State-machine model of the HELM data downloader.                        *)
(*                                                                         *)
(*   helmdd/helm.py                  run, download_project, RunInfo        *)
(*   helm_data_downloader/download.py  run (the first, single-archive tool) *)
(*                                                                         *)
(* Strings that the program inspects character by character (run ids and   *)
(* their percent-encoding) are sequences of ASCII code points; URLs are    *)
(* sequences of path tokens; all other strings are TLA+ strings.           *)
(***************************************************************************)
EXTENDS Integers, Sequences, FiniteSets, TLC

(***************************************************************************)
(* Bounds of the model.                                                    *)
(***************************************************************************)
MaxRuns == 2          \* longest run_specs.json listing the server publishes
MaxCap == 1           \* largest --max-runs value tried
MaxInvocations == 2   \* number of successive invocations of the tool
MaxIdLen == 3         \* longest run id tried for path_safe_id

(***************************************************************************)
(* Program constants.                                                      *)
(***************************************************************************)
FILES ==
    << "run_spec.json", "scenario.json", "scenario_state.json", "stats.json",
       "instances.json", "display_predictions.json", "display_requests.json" >>

PROJECTS == << "classic", "heim", "lite", "instruct" >>

\* Variant: every project reads window.RELEASE.
ReleaseKey_release_only(p) == "RELEASE"

\* PROJECT_INFO[p]["release_regex"]: the config.js variable the regex reads.
ReleaseKey(p) == IF p = "heim" THEN "SUITE" ELSE "RELEASE"

\* PROJECT_INFO[p]["get_release_url"](storage_url, release)
GetReleaseUrl(p, url, rel) ==
    IF p = "heim" THEN url \o << "runs", rel >> ELSE url \o << "releases", rel >>

None == "None"
NoRun == << 0 >>       \* placeholder run id in log entries that name no run

(***************************************************************************)
(* Pure helpers.                                                           *)
(***************************************************************************)
Range(s) == { s[k] : k \in 1..Len(s) }

Min(a, b) == IF a < b THEN a ELSE b

Max(a, b) == IF a > b THEN a ELSE b

\* Python's str < str: code point by code point, a proper prefix is smaller.
LexLess(a, b) ==
    \E k \in 1..(Min(Len(a), Len(b)) + 1) :
        /\ \A m \in 1..(k - 1) : a[m] = b[m]
        /\ \/ k > Len(a) /\ k <= Len(b)
           \/ k <= Len(a) /\ k <= Len(b) /\ a[k] < b[k]

\* Characters urllib.parse.quote never escapes: A-Z a-z 0-9 _ . - ~
AlwaysSafe(c) ==
    \/ c \in 65..90
    \/ c \in 97..122
    \/ c \in 48..57
    \/ c \in {95, 46, 45, 126}

HexDigit(n) == IF n < 10 THEN 48 + n ELSE 55 + n

\* Variant: quote's default safe="/" instead of safe="".
QuoteChar_slash_safe(c) ==
    IF AlwaysSafe(c) \/ c = 47 THEN << c >>
    ELSE << 37, HexDigit(c \div 16), HexDigit(c % 16) >>

QuoteChar(c) ==
    IF AlwaysSafe(c) THEN << c >>
    ELSE << 37, HexDigit(c \div 16), HexDigit(c % 16) >>

RECURSIVE Quote(_)
Quote(s) == IF s = << >> THEN << >> ELSE QuoteChar(Head(s)) \o Quote(Tail(s))

\* RunInfo.path_safe_id: urllib.parse.quote(self.id, safe="")
path_safe_id(id) == Quote(id)

\* output_dir / name in pathlib: an empty or "." component is dropped, so the
\* result is output_dir itself (written here as the empty directory name).
JoinDir(name) == IF name = << >> \/ name = << 46 >> THEN << >> ELSE name

\* run_dir = output_dir / run.path_safe_id()
RunDir(od, id) == << od, JoinDir(path_safe_id(id)) >>

FilePath(dir, file, suffix) == << dir[1], dir[2], file, suffix >>

\* str.rstrip("/") on a URL written as a sequence of tokens
RECURSIVE RStrip(_)
RStrip(u) ==
    IF u # << >> /\ u[Len(u)] = "/" THEN RStrip(SubSeq(u, 1, Len(u) - 1)) ELSE u

\* sorted(runs_to_download, key=lambda run: run.id): stable, ascending by id.
RECURSIVE InsertRun(_, _)
InsertRun(r, s) ==
    IF s = << >> THEN << r >>
    ELSE IF LexLess(r.id, Head(s).id) THEN << r >> \o s
    ELSE << Head(s) >> \o InsertRun(r, Tail(s))

\* Variant: the list is left in server order.
SortedById_unsorted(s) == s

RECURSIVE SortedById(_)
SortedById(s) ==
    IF s = << >> THEN << >>
    ELSE InsertRun(s[Len(s)], SortedById(SubSeq(s, 1, Len(s) - 1)))

\* Optional[int]: None, or an integer.
NoneInt == [ none |-> TRUE, n |-> 0 ]

SomeInt(k) == [ none |-> FALSE, n |-> k ]

\* Python slice s[:k]; k = None keeps everything, a negative k counts from the end.
SliceTo(s, k) ==
    IF k.none THEN s
    ELSE IF k.n >= 0 THEN SubSeq(s, 1, Min(k.n, Len(s)))
    ELSE SubSeq(s, 1, Max(Len(s) + k.n, 0))

\* [x for x in s if P(x)]
RECURSIVE SelectRuns(_, _)
SelectRuns(s, excluded) ==
    IF s = << >> THEN << >>
    ELSE IF Head(s).id \in excluded THEN SelectRuns(Tail(s), excluded)
    ELSE << Head(s) >> \o SelectRuns(Tail(s), excluded)

(***************************************************************************)
(* The environment: what the command line and the remote archive can be.   *)
(***************************************************************************)
\* Run ids "B", "a" and "a:" (code-point order: "B" < "a" < "a:").
RunIdChoices == { << 66 >>, << 97 >>, << 97, 58 >> }

\* Sequences of at most n distinct elements of S, in every order.
ListingsUpTo(S, n) ==
    UNION { { t \in [ 1..m -> S ] : \A a, b \in 1..m : a # b => t[a] # t[b] } : m \in 0..n }

\* The listings run_specs.json may hold, in server order (the ids of a
\* release are distinct).
ManifestChoices == ListingsUpTo(RunIdChoices, MaxRuns)

\* The suite each run was produced under (runs_to_run_suites.json).
SuiteOf(id) == IF id = << 66 >> THEN "v0" ELSE "v1"

NoneUrl == << "None" >>          \* args.storage_url is None
Unbound == << "<unbound>" >>     \* the local variable storage_url was never assigned
NoBase == << "<nomatch>" >>      \* config.js has no BENCHMARK_OUTPUT_BASE_URL line

\* get_parser, lines 271-275: the default of --files
DefaultFiles == << "scenario_state.json", "instances.json", "display_predictions.json" >>

MaxRunsChoices == { NoneInt } \cup { SomeInt(k) : k \in -1..MaxCap }

\* Command lines that exercise release and storage resolution, for every
\* project, with the remaining options at their defaults.
ResolveArgs ==
    [ project_id : Range(PROJECTS),
      release : { "latest", "v1" },
      output_dir : { << "None" >>, << "out" >> },
      storage_url : { NoneUrl, << "mirror", "/", "/" >> },
      redownload : { FALSE },
      max_runs : { NoneInt },
      dry_run : { FALSE },
      files : { DefaultFiles } ]

\* Command lines that exercise planning and fetching.
PlanArgs ==
    [ project_id : { "classic" },
      release : { "v1" },
      output_dir : { << "out" >> },
      storage_url : { << "mirror", "/", "/" >> },
      redownload : BOOLEAN,
      max_runs : MaxRunsChoices,
      dry_run : BOOLEAN,
      files : { << "scenario_state.json", "instances.json" >>,
                << "instances.json", "scenario_state.json" >> } ]

\* Command lines that leave --files at its default or ask for every file of
\* the catalog.
AllFilesArgs ==
    [ project_id : { "classic" },
      release : { "v1" },
      output_dir : { << "out" >> },
      storage_url : { << "mirror", "/", "/" >> },
      redownload : { FALSE },
      max_runs : { NoneInt, SomeInt(1) },
      dry_run : { FALSE },
      files : { << "all" >>, DefaultFiles } ]

\* A command line that names a file outside the catalog.
BadFilesArgs ==
    [ project_id : { "heim" },
      release : { "v1" },
      output_dir : { << "None" >> },
      storage_url : { << "mirror", "/", "/" >> },
      redownload : { FALSE },
      max_runs : { NoneInt },
      dry_run : { FALSE },
      files : { << "scenario.json", "notes.txt" >> } ]

\* A command line that names a project outside PROJECTS: --project takes any
\* string (get_parser line 230-237 sets no choices).
UnknownProjectArgs ==
    [ project_id : { "bogus" },
      release : { "latest", "v1" },
      output_dir : { << "None" >>, << "out" >> },
      storage_url : { NoneUrl, << "mirror", "/", "/" >> },
      redownload : { FALSE },
      max_runs : { NoneInt },
      dry_run : BOOLEAN,
      files : { DefaultFiles } ]

\* Release tokens of the form v<digits>.<digits>.<digits>; "v1" and "v2" are
\* release names that are not of that form.
SemVers == { "v0.4.0", "v1.0.0" }

\* the pattern v\d+\.\d+\.\d+ of the first tools
IsSemVer(token) == token \in SemVers

\* A response to GET config.js: the request raises (ok = FALSE) or returns a
\* page on which each of the three variables is present or not.
ConfigResponses ==
    { [ ok |-> FALSE, RELEASE |-> None, SUITE |-> None, BASE |-> NoBase ] }
    \cup [ ok : { TRUE }, RELEASE : { None, "v2", "v0.4.0" }, SUITE : { None, "v2" },
           BASE : { NoBase, << "base", "/" >> } ]

WellFormedConfig ==
    { r \in ConfigResponses : r.ok /\ r.RELEASE # None /\ r.SUITE # None /\ r.BASE # NoBase }

ConfigResponsesOf(kind) == IF kind = "well_formed" THEN WellFormedConfig ELSE ConfigResponses

\* A response to GET run_specs.json.  type: what the body parses to.
\*   "connerr" the request raises, "nonjson" the body is not JSON,
\*   "list" a JSON array of objects (an object may lack "name"),
\*   "dict" a JSON object (items: one entry per key), "null" JSON null.
RunSpecItems(ids) == [ k \in 1..Len(ids) |-> [ has_name |-> TRUE, name |-> ids[k] ] ]

DropName(items, k) == [ items EXCEPT ![k] = [ has_name |-> FALSE, name |-> @.name ] ]

RunSpecsResponses(ids) ==
    { [ type |-> t, items |-> << >> ] : t \in { "connerr", "nonjson", "null", "dict" } }
    \cup { [ type |-> "dict", items |-> RunSpecItems(ids) ] }
    \cup { [ type |-> "list", items |-> RunSpecItems(ids) ] }
    \cup { [ type |-> "list", items |-> DropName(RunSpecItems(ids), k) ] : k \in 1..Len(ids) }

RunSpecsResponsesOf(kind, ids) ==
    IF kind = "well_formed" THEN { [ type |-> "list", items |-> RunSpecItems(ids) ] }
    ELSE RunSpecsResponses(ids)

\* A response to GET runs_to_run_suites.json; for a JSON object, the run ids
\* it has an entry for.
SuitesResponses ==
    { [ type |-> t, keys |-> { } ] : t \in { "connerr", "nonjson", "list" } }
    \cup { [ type |-> "dict", keys |-> RunIdChoices \ missing ] :
             missing \in { { } } \cup { { id } : id \in RunIdChoices } }

SuitesResponsesOf(kind) ==
    IF kind = "well_formed" THEN { [ type |-> "dict", keys |-> RunIdChoices ] }
    ELSE SuitesResponses

\* A response to GET of one artifact file: a status code, or 0 when the
\* request itself raises.
ArtifactResponses == { 200, 404, 0 }

ArtifactResponsesOf(kind) == IF kind = "well_formed" THEN { 200, 404 } ELSE ArtifactResponses

\* output_dir = args.output_dir or Path(f"./helm-data/{project}/{release}/")
OutputDirOf(a, p, rel) ==
    IF a.output_dir = << "None" >> THEN << "helm-data", p, rel >> ELSE a.output_dir

\* The output directories an invocation with command line a may use.
OutputDirsOf(a) == { OutputDirOf(a, a.project_id, rel) : rel \in { "v1", "v2", "v0.4.0" } }

\* What the disk may hold before the first invocation: no output directory,
\* an empty one, or one in which every run directory holds `files`.
\*   "none"   the output directory does not exist
\*   "empty"  it exists and is empty
\*   "mixed"  run "B" has every catalog file, run "a" only scenario_state.json
\*   "full"   every run has every catalog file
PriorChoices == { "none", "empty", "mixed", "full" }

PriorFiles(prior, id) ==
    IF prior = "full" THEN Range(FILES)
    ELSE IF prior = "mixed" /\ id = << 66 >> THEN Range(FILES)
    ELSE IF prior = "mixed" /\ id = << 97 >> THEN { "scenario_state.json" }
    ELSE { }

PriorDirs(a, prior) ==
    IF prior = "none" THEN { }
    ELSE { << od, << >> >> : od \in OutputDirsOf(a) }
         \cup { RunDir(od, id) : od \in OutputDirsOf(a),
                                 id \in { x \in RunIdChoices : PriorFiles(prior, x) # { } } }

PriorPaths(a, prior) ==
    UNION { { FilePath(RunDir(od, id), f, "") : f \in PriorFiles(prior, id) } :
              od \in OutputDirsOf(a), id \in RunIdChoices }

\* The scenarios checked.  Release and storage resolution and the manifest
\* requests do not read the disk, so their command lines run against an
\* archive that may answer anything, with a listing of one run and a clean disk;
\* planning and fetching run against every listing and disk, with an archive
\* whose config.js and manifest are well formed and whose requests never
\* raise (an artifact may still be missing: 404).
Scenarios ==
    [ args : ResolveArgs \cup BadFilesArgs \cup UnknownProjectArgs,
      archive : { "arbitrary" },
      published : { t \in ManifestChoices : Len(t) = 1 /\ t[1] \in { << 97 >>, << 97, 58 >> } },
      prior : { "none" } ]
    \cup [ args : PlanArgs, archive : { "well_formed" }, published : ManifestChoices,
           prior : PriorChoices ]
    \cup [ args : AllFilesArgs, archive : { "well_formed" },
           published : { t \in ManifestChoices : Len(t) = MaxRuns },
           prior : { "empty", "mixed" } ]

\* A file's content: the status of the response it came from and the
\* invocation that wrote it (invocation 0: it was there before).
Content(status, inv) == [ status |-> status, inv |-> inv ]

(***************************************************************************)
(* State.                                                                  *)
(***************************************************************************)
VARIABLES
    args,               \* the parsed command line (Args)
    archive,            \* "well_formed" or "arbitrary": what the archive may answer
    published,          \* run ids the archive lists in run_specs.json, in server order
    dirs,               \* directories that exist on disk
    fs,                 \* files that exist on disk: path -> content
    pc,                 \* where the invocation is
    projects,           \* run: projects still to process
    project,            \* download_project: its `project` parameter
    release,            \* download_project locals ...
    storage_url,
    release_url,
    run_ids,
    runs,
    output_dir,
    run_files,
    already_downloaded,
    runs_to_download,
    queue,              \* runs_to_download[: args.max_runs], the sequence the loop walks
    i,                  \* index in queue of the run being processed
    j,                  \* index in run_files of the file being fetched
    exit_status,        \* -1 while running, else the process exit status
    exc,                \* the exception that ended the invocation, "" if none
    log,                \* requests and file-system calls of this invocation, in order
    invocation,         \* 1 for the first invocation, 2 for the next, ...
    seen,               \* the responses this call of download_project received
    start,              \* dirs and fs as they were when this invocation started
    prev                \* summary of the previous invocation

locals ==
    << release, storage_url, release_url, run_ids, runs, output_dir, run_files,
       already_downloaded, runs_to_download, queue, i, j >>

vars ==
    << args, archive, published, dirs, fs, pc, projects, project, locals,
       exit_status, exc, log, invocation, seen, start, prev >>

Event(op, run, file, status) == [ op |-> op, run |-> run, file |-> file, status |-> status ]

NoPrev ==
    [ valid |-> FALSE, pc |-> "", runs |-> << >>, output_dir |-> << >>,
      run_files |-> << >>, failed |-> { }, refused |-> { }, dry_run |-> FALSE ]

\* No response received yet.
NoRelease == [ asked |-> FALSE, ok |-> FALSE, RELEASE |-> None, SUITE |-> None ]

NoStorage == [ asked |-> FALSE, ok |-> FALSE, BASE |-> NoBase ]

NoRunSpecs == [ asked |-> FALSE, type |-> "", items |-> << >> ]

NoSuites == [ asked |-> FALSE, type |-> "", missing |-> { } ]

NothingSeen ==
    [ release |-> NoRelease, storage |-> NoStorage, run_specs |-> NoRunSpecs,
      suites |-> NoSuites ]

\* What the first config.js response said about the release ...
SeenRelease(resp) ==
    [ asked |-> TRUE, ok |-> resp.ok, RELEASE |-> resp.RELEASE, SUITE |-> resp.SUITE ]

\* ... and the second about the storage URL.
SeenStorage(resp) == [ asked |-> TRUE, ok |-> resp.ok, BASE |-> resp.BASE ]

SeenRunSpecs(resp) == [ asked |-> TRUE, type |-> resp.type, items |-> resp.items ]

\* The runs_to_run_suites.json response: its JSON type and the listed run ids
\* it has no entry for.
SeenSuites(resp, ids) ==
    [ asked |-> TRUE, type |-> resp.type, missing |-> Range(ids) \ resp.keys ]

FreshLocals ==
    /\ release = ""
    /\ storage_url = Unbound
    /\ release_url = << >>
    /\ run_ids = << >>
    /\ runs = << >>
    /\ output_dir = << >>
    /\ run_files = << >>
    /\ already_downloaded = { }
    /\ runs_to_download = << >>
    /\ queue = << >>
    /\ i = 0
    /\ j = 0

\* Variant: the projects are taken in another order.
ProjectsOf_heim_first(a) ==
    IF a.project_id = "all" THEN << "heim", "classic", "lite", "instruct" >>
    ELSE << a.project_id >>

\* run, line 79
ProjectsOf(a) == IF a.project_id = "all" THEN PROJECTS ELSE << a.project_id >>

Init ==
    /\ \E sc \in Scenarios :
          /\ args = sc.args
          /\ archive = sc.archive
          /\ published = sc.published
          /\ dirs = PriorDirs(sc.args, sc.prior)
          /\ fs = [ path \in PriorPaths(sc.args, sc.prior) |-> Content(200, 0) ]
    /\ pc = "run"
    /\ projects = ProjectsOf(args)
    /\ project = ""
    /\ FreshLocals
    /\ exit_status = -1
    /\ exc = ""
    /\ log = << >>
    /\ invocation = 1
    /\ seen = NothingSeen
    /\ start = [ dirs |-> dirs, fs |-> fs ]
    /\ prev = NoPrev

\* sys.exit(1)
Exit1 ==
    /\ pc' = "exited"
    /\ exit_status' = 1
    /\ exc' = "SystemExit"

\* Variant: an uncaught exception leaves the exit status at zero.
Raise_exit0(e) ==
    /\ pc' = "raised"
    /\ exit_status' = 0
    /\ exc' = e

\* an exception nothing catches: traceback, exit status 1
Raise(e) ==
    /\ pc' = "raised"
    /\ exit_status' = 1
    /\ exc' = e

ResetLocals ==
    /\ release' = ""
    /\ storage_url' = Unbound
    /\ release_url' = << >>
    /\ run_ids' = << >>
    /\ runs' = << >>
    /\ output_dir' = << >>
    /\ run_files' = << >>
    /\ already_downloaded' = { }
    /\ runs_to_download' = << >>
    /\ queue' = << >>
    /\ i' = 0
    /\ j' = 0

(***************************************************************************)
(* helmdd/helm.py                                                          *)
(***************************************************************************)
\* run, lines 78-81, and the entry of download_project, lines 114-119:
\* take the next project, or return from run when none is left.
NextProject ==
    /\ pc = "run"
    /\ IF projects = << >>
       THEN /\ pc' = "done"
            /\ exit_status' = 0
            /\ UNCHANGED << projects, project, locals, exc, seen >>
       ELSE /\ project' = Head(projects)
            /\ projects' = Tail(projects)
            /\ ResetLocals
            /\ seen' = NothingSeen
            /\ IF Head(projects) \in Range(PROJECTS)
               THEN pc' = "release" /\ UNCHANGED << exit_status, exc >>
               ELSE Raise("ValueError")
    /\ UNCHANGED << args, archive, published, dirs, fs, log, invocation, start, prev >>

\* download_project, lines 121-133: "Get version"
GetRelease ==
    /\ pc = "release"
    /\ IF args.release = "latest"
       THEN \E resp \in ConfigResponsesOf(archive) :
              /\ log' = Append(log, Event("get_config", NoRun, "", 0))
              /\ seen' = [ seen EXCEPT !.release = SeenRelease(resp) ]
              /\ IF resp.ok /\ resp[ReleaseKey(project)] # None
                 THEN /\ release' = resp[ReleaseKey(project)]
                      /\ pc' = "storage"
                      /\ UNCHANGED << exit_status, exc >>
                 ELSE /\ Exit1
                      /\ UNCHANGED release
       ELSE /\ release' = args.release
            /\ pc' = "storage"
            /\ UNCHANGED << log, seen, exit_status, exc >>
    /\ UNCHANGED << args, archive, published, dirs, fs, projects, project, storage_url,
                    release_url, run_ids, runs, output_dir, run_files,
                    already_downloaded, runs_to_download, queue, i, j,
                    invocation, start, prev >>

\* download_project, lines 135-154: "Get storage url", "Normalise storage url"
GetStorageUrl ==
    /\ pc = "storage"
    /\ IF args.storage_url = NoneUrl
       THEN \E resp \in ConfigResponsesOf(archive) :
              /\ log' = Append(log, Event("get_config", NoRun, "", 0))
              /\ seen' = [ seen EXCEPT !.storage = SeenStorage(resp) ]
              /\ IF resp.ok /\ resp.BASE # NoBase
                 THEN /\ storage_url' = RStrip(resp.BASE)
                      /\ release_url' = GetReleaseUrl(project, RStrip(resp.BASE), release)
                      /\ pc' = "run_specs"
                      /\ UNCHANGED << exit_status, exc >>
                 ELSE \* the except branch assigns nothing; line 152 reads storage_url
                      /\ Raise("UnboundLocalError")
                      /\ UNCHANGED << storage_url, release_url >>
       ELSE /\ storage_url' = RStrip(args.storage_url)
            /\ release_url' = GetReleaseUrl(project, RStrip(args.storage_url), release)
            /\ pc' = "run_specs"
            /\ UNCHANGED << log, seen, exit_status, exc >>
    /\ UNCHANGED << args, archive, published, dirs, fs, projects, project, release,
                    run_ids, runs, output_dir, run_files,
                    already_downloaded, runs_to_download, queue, i, j,
                    invocation, start, prev >>

\* requests.get(...).json() followed by [run_spec["name"] for run_spec in run_specs]:
\* the exception raised ("" if none) and the list built.
RunIdsOf(resp) ==
    CASE resp.type = "connerr" -> [ exc |-> "ConnectionError", ids |-> << >> ]
      [] resp.type = "nonjson" -> [ exc |-> "JSONDecodeError", ids |-> << >> ]
      [] resp.type = "null" -> [ exc |-> "TypeError", ids |-> << >> ]
      [] resp.type = "dict" ->
            \* iterating a dict yields its keys, and str["name"] is a TypeError
            IF resp.items = << >> THEN [ exc |-> "", ids |-> << >> ]
            ELSE [ exc |-> "TypeError", ids |-> << >> ]
      [] OTHER ->
            IF \E k \in 1..Len(resp.items) : ~resp.items[k].has_name
            THEN [ exc |-> "KeyError", ids |-> << >> ]
            ELSE [ exc |-> "", ids |-> [ k \in 1..Len(resp.items) |-> resp.items[k].name ] ]

\* download_project, lines 156-167: "Get run ids"
GetRunSpecs ==
    /\ pc = "run_specs"
    /\ \E resp \in RunSpecsResponsesOf(archive, published) :
          LET r == RunIdsOf(resp) IN
          /\ log' = Append(log, Event("get_run_specs", NoRun, "", 0))
          /\ seen' = [ seen EXCEPT !.run_specs = SeenRunSpecs(resp) ]
          /\ IF r.exc = ""
             THEN /\ run_ids' = r.ids
                  /\ pc' = "suites"
                  /\ UNCHANGED << exit_status, exc >>
             ELSE /\ IF r.exc = "JSONDecodeError" THEN Exit1 ELSE Raise(r.exc)
                  /\ UNCHANGED run_ids
    /\ UNCHANGED << args, archive, published, dirs, fs, projects, project, release,
                    storage_url, release_url, runs, output_dir, run_files,
                    already_downloaded, runs_to_download, queue, i, j,
                    invocation, start, prev >>

\* requests.get(...).json() followed by
\* [RunInfo(id=id, suite=runs_to_run_suites[id]) for id in run_ids]
RunsOf(resp, ids) ==
    CASE resp.type = "connerr" -> [ exc |-> "ConnectionError", runs |-> << >> ]
      [] resp.type = "nonjson" -> [ exc |-> "JSONDecodeError", runs |-> << >> ]
      [] resp.type = "list" ->
            IF ids = << >> THEN [ exc |-> "", runs |-> << >> ]
            ELSE [ exc |-> "TypeError", runs |-> << >> ]
      [] OTHER ->
            IF \E k \in 1..Len(ids) : ids[k] \notin resp.keys
            THEN [ exc |-> "KeyError", runs |-> << >> ]
            ELSE [ exc |-> "",
                   runs |-> [ k \in 1..Len(ids) |-> [ id |-> ids[k], suite |-> SuiteOf(ids[k]) ] ] ]

\* download_project, lines 169-175: "Get run to suite mapping"
GetSuites ==
    /\ pc = "suites"
    /\ IF project # "heim"
       THEN \E resp \in SuitesResponsesOf(archive) :
              LET r == RunsOf(resp, run_ids) IN
              /\ log' = Append(log, Event("get_suites", NoRun, "", 0))
              /\ seen' = [ seen EXCEPT !.suites = SeenSuites(resp, run_ids) ]
              /\ IF r.exc = ""
                 THEN /\ runs' = r.runs
                      /\ pc' = "plan"
                      /\ UNCHANGED << exit_status, exc >>
                 ELSE /\ Raise(r.exc)
                      /\ UNCHANGED runs
       ELSE /\ runs' = [ k \in 1..Len(run_ids) |-> [ id |-> run_ids[k], suite |-> release ] ]
            /\ pc' = "plan"
            /\ UNCHANGED << log, seen, exit_status, exc >>
    /\ UNCHANGED << args, archive, published, dirs, fs, projects, project, release,
                    storage_url, release_url, run_ids, output_dir, run_files,
                    already_downloaded, runs_to_download, queue, i, j,
                    invocation, start, prev >>

\* Path.exists() for a file path
Exists(disk, path) == path \in DOMAIN disk

\* Variant: the run directory is looked up under the raw id.
is_downloaded_raw_id(disk, od, files, run) ==
    \A f \in Range(files) : Exists(disk, FilePath(<< od, JoinDir(run.id) >>, f, ""))

\* Variant: any() instead of all().
is_downloaded_any(disk, od, files, run) ==
    \E f \in Range(files) : Exists(disk, FilePath(RunDir(od, run.id), f, ""))

\* is_downloaded, lines 187-189
is_downloaded(disk, od, files, run) ==
    \A f \in Range(files) : Exists(disk, FilePath(RunDir(od, run.id), f, ""))

\* line 191: set(run.id for run in runs if is_downloaded(run))
AlreadyDownloaded(disk, od, files, rs) ==
    { rs[k].id : k \in { m \in 1..Len(rs) : is_downloaded(disk, od, files, rs[m]) } }

\* Variant: every run of the manifest is left to download.
RunsToDownload_all(rs, done, redownload) ==
    SortedById(rs)

\* lines 192-193: the runs left to download, sorted by id
RunsToDownload(rs, done, redownload) ==
    SortedById(SelectRuns(rs, done))

\* line 207: runs_to_download[: args.max_runs]
Queue(pending, max_runs) == SliceTo(pending, max_runs)

\* open(path, "wb").write(content)
WriteFile(disk, path, content) ==
    [ q \in DOMAIN disk \cup { path } |-> IF q = path THEN content ELSE disk[q] ]

\* download_project, lines 177-207: "Configure outputs", "Manage already
\* downloaded runs", and the evaluation of the loop's iterable.
PlanDownload ==
    /\ pc = "plan"
    /\ LET od == OutputDirOf(args, project, release)
           files == IF args.files = << "all" >> THEN FILES ELSE args.files
           done == AlreadyDownloaded(fs, od, files, runs)
           pending == RunsToDownload(runs, done, args.redownload)
       IN  /\ output_dir' = od
           /\ dirs' = dirs \cup { << od, << >> >> }
           /\ IF args.files # << "all" >> /\ ~(Range(args.files) \subseteq Range(FILES))
              THEN \* line 183: the assert fails, after line 179 made the directory
                   /\ Raise("AssertionError")
                   /\ log' = Append(log, Event("mkdir_out", NoRun, "", 0))
                   /\ UNCHANGED << run_files, already_downloaded, runs_to_download,
                                   queue, i, j >>
              ELSE /\ run_files' = files
                   /\ already_downloaded' = done
                   /\ runs_to_download' = pending
                   /\ queue' = Queue(pending, args.max_runs)
                   /\ i' = 1
                   /\ j' = 0
                   /\ log' = log \o << Event("mkdir_out", NoRun, "", 0),
                                       Event("mkdir_out", NoRun, "", 0) >>
                   /\ pc' = "loop"
                   /\ UNCHANGED << exit_status, exc >>
    /\ UNCHANGED << args, archive, published, fs, projects, project, release, storage_url,
                    release_url, run_ids, runs, invocation, seen, start, prev >>

\* Variant: the run directory is not created before the files are fetched.
BeginRun_no_mkdir ==
    /\ pc = "loop"
    /\ IF i > Len(queue)
       THEN /\ pc' = "run"
            /\ UNCHANGED << dirs, i, j, log >>
       ELSE IF args.dry_run
       THEN /\ i' = i + 1
            /\ UNCHANGED << pc, dirs, j, log >>
       ELSE /\ j' = 1
            /\ pc' = "fetch"
            /\ UNCHANGED << dirs, i, log >>
    /\ UNCHANGED << args, archive, published, fs, projects, project, release, storage_url,
                    release_url, run_ids, runs, output_dir, run_files,
                    already_downloaded, runs_to_download, queue,
                    exit_status, exc, invocation, seen, start, prev >>

\* download_project, lines 207-214: the head of one iteration of "Download
\* runs", or the return from download_project when the queue is exhausted.
BeginRun ==
    /\ pc = "loop"
    /\ IF i > Len(queue)
       THEN /\ pc' = "run"
            /\ UNCHANGED << dirs, i, j, log >>
       ELSE IF args.dry_run
       THEN /\ i' = i + 1
            /\ UNCHANGED << pc, dirs, j, log >>
       ELSE /\ dirs' = dirs \cup { RunDir(output_dir, queue[i].id) }
            /\ log' = Append(log, Event("mkdir", queue[i].id, "", 0))
            /\ j' = 1
            /\ pc' = "fetch"
            /\ UNCHANGED i
    /\ UNCHANGED << args, archive, published, fs, projects, project, release, storage_url,
                    release_url, run_ids, runs, output_dir, run_files,
                    already_downloaded, runs_to_download, queue,
                    exit_status, exc, invocation, seen, start, prev >>

\* Variant: the loop goes on to the next file after recording the error.
AfterError_continue ==
    /\ IF j < Len(run_files)
       THEN j' = j + 1 /\ UNCHANGED << i, pc >>
       ELSE j' = 0 /\ i' = i + 1 /\ pc' = "loop"
    /\ UNCHANGED << exit_status, exc >>

\* line 224: raise Exception(...) once the error body is on disk
AfterError ==
    /\ Raise("Exception")
    /\ UNCHANGED << i, j >>

\* download_project, lines 215-224: fetch one file of the current run
FetchFile ==
    /\ pc = "fetch"
    /\ \E status \in ArtifactResponsesOf(archive) :
          LET run == queue[i]
              file_name == run_files[j]
              dir == RunDir(output_dir, run.id)
          IN  IF status = 0
              THEN \* requests.get raises
                   /\ log' = Append(log, Event("get", run.id, file_name, status))
                   /\ Raise("ConnectionError")
                   /\ UNCHANGED << fs, i, j >>
              ELSE IF status = 200
              THEN /\ log' = log \o << Event("get", run.id, file_name, status),
                                       Event("write", run.id, file_name, status) >>
                   /\ fs' = WriteFile(fs, FilePath(dir, file_name, ""),
                                      Content(status, invocation))
                   /\ IF j < Len(run_files)
                      THEN j' = j + 1 /\ UNCHANGED << i, pc >>
                      ELSE j' = 0 /\ i' = i + 1 /\ pc' = "loop"
                   /\ UNCHANGED << exit_status, exc >>
              ELSE /\ log' = log \o << Event("get", run.id, file_name, status),
                                       Event("write_error", run.id, file_name, status) >>
                   /\ fs' = WriteFile(fs, FilePath(dir, file_name, ".error"),
                                      Content(status, invocation))
                   /\ AfterError
    /\ UNCHANGED << args, archive, published, dirs, projects, project, release, storage_url,
                    release_url, run_ids, runs, output_dir, run_files,
                    already_downloaded, runs_to_download, queue,
                    invocation, seen, start, prev >>

Terminated == pc \in { "done", "exited", "raised" }

\* run ids for which the invocation received a non-success status
FailedRuns(l) == { l[k].run : k \in { m \in 1..Len(l) : l[m].op = "get" /\ l[m].status # 200 } }

\* run ids for which an artifact request was answered with a status other than 200
RefusedRuns(l) ==
    { l[k].run : k \in { m \in 1..Len(l) : l[m].op = "get" /\ l[m].status \notin { 200, 0 } } }

\* The operator starts the tool again with the same command line; nothing
\* else touches the disk in between.
Reinvoke ==
    /\ Terminated
    /\ invocation < MaxInvocations
    /\ invocation' = invocation + 1
    /\ prev' = [ valid |-> TRUE, pc |-> pc, runs |-> runs, output_dir |-> output_dir,
                 run_files |-> run_files, failed |-> FailedRuns(log),
                 refused |-> RefusedRuns(log),
                 dry_run |-> args.dry_run ]
    /\ start' = [ dirs |-> dirs, fs |-> fs ]
    /\ pc' = "run"
    /\ projects' = ProjectsOf(args)
    /\ project' = ""
    /\ ResetLocals
    /\ exit_status' = -1
    /\ exc' = ""
    /\ log' = << >>
    /\ seen' = NothingSeen
    /\ UNCHANGED << args, archive, published, dirs, fs >>

Next ==
    \/ NextProject
    \/ GetRelease
    \/ GetStorageUrl
    \/ GetRunSpecs
    \/ GetSuites
    \/ PlanDownload
    \/ BeginRun
    \/ FetchFile
    \/ Reinvoke

Spec == Init /\ [][Next]_vars

\* Command lines with --project all.
AllProjectsArgs ==
    [ project_id : { "all" },
      release : { "latest", "v1" },
      output_dir : { << "None" >>, << "out" >> },
      storage_url : { NoneUrl, << "mirror", "/", "/" >> },
      redownload : { FALSE },
      max_runs : { NoneInt },
      dry_run : BOOLEAN,
      files : { DefaultFiles } ]

\* The tool is started with --project all on a clean disk, against an
\* archive that may answer anything.
InitAll ==
    /\ args \in AllProjectsArgs
    /\ archive = "arbitrary"
    /\ published \in { t \in ManifestChoices : Len(t) = MaxRuns /\ t[1] = << 97 >> }
    /\ dirs = { }
    /\ fs = << >>
    /\ pc = "run"
    /\ projects = ProjectsOf(args)
    /\ project = ""
    /\ FreshLocals
    /\ exit_status = -1
    /\ exc = ""
    /\ log = << >>
    /\ invocation = 1
    /\ seen = NothingSeen
    /\ start = [ dirs |-> dirs, fs |-> fs ]
    /\ prev = NoPrev

\* One invocation: every step of run and download_project, no restart.
NextOnce ==
    \/ NextProject
    \/ GetRelease
    \/ GetStorageUrl
    \/ GetRunSpecs
    \/ GetSuites
    \/ PlanDownload
    \/ BeginRun
    \/ FetchFile

SpecAll == InitAll /\ [][NextOnce]_vars

TypeOK ==
    /\ pc \in { "run", "release", "storage", "run_specs", "suites", "plan", "loop",
                "fetch", "done", "exited", "raised" }
    /\ exit_status \in { -1, 0, 1 }
    /\ invocation \in 1..MaxInvocations
    /\ i \in 0..(Len(queue) + 1)
    /\ j \in 0..Len(run_files)

(***************************************************************************)
(* helm_data_downloader/download.py: the first tool, one archive, three    *)
(* fixed files per run.  It shares the state variables above; project,     *)
(* projects, run_ids, release_url and j stay unused.                       *)
(***************************************************************************)
\* lines 132-134: the files fetched for every run, in request order
DL_FILES == << "run_spec.json", "scenario_state.json", "scenario.json" >>

\* line 83: the fallback storage URL
DL_DEFAULT_URL == << "storage.googleapis.com", "crfm-helm-public", "/" >>

DlArgs ==
    [ project_id : { "classic" },
      release : { "latest", "v1" },
      output_dir : { << "out" >> },
      storage_url : { NoneUrl, << "mirror", "/", "/" >> },
      redownload : BOOLEAN,
      max_runs : MaxRunsChoices,
      dry_run : BOOLEAN,
      files : { DL_FILES } ]

DlInit ==
    /\ \E a \in DlArgs, listing \in ManifestChoices, prior \in PriorChoices :
          /\ args = a
          /\ archive = "arbitrary"
          /\ published = listing
          /\ dirs = PriorDirs(a, prior)
          /\ fs = [ path \in PriorPaths(a, prior) |-> Content(200, 0) ]
    /\ pc = "dl_release"
    /\ projects = << >>
    /\ project = ""
    /\ FreshLocals
    /\ exit_status = -1
    /\ exc = ""
    /\ log = << >>
    /\ invocation = 1
    /\ seen = NothingSeen
    /\ start = [ dirs |-> dirs, fs |-> fs ]
    /\ prev = NoPrev

\* run, lines 56-73: "Get semver"; the pattern of line 66 only matches a
\* RELEASE of the form v<digits>.<digits>.<digits>
DlGetRelease ==
    /\ pc = "dl_release"
    /\ IF args.release = "latest"
       THEN \E resp \in ConfigResponses :
              /\ log' = Append(log, Event("get_config", NoRun, "", 0))
              /\ seen' = [ seen EXCEPT !.release = SeenRelease(resp) ]
              /\ IF resp.ok /\ resp.RELEASE # None /\ IsSemVer(resp.RELEASE)
                 THEN /\ release' = resp.RELEASE
                      /\ pc' = "dl_storage"
                      /\ UNCHANGED << exit_status, exc >>
                 ELSE /\ Exit1
                      /\ UNCHANGED release
       ELSE /\ release' = args.release
            /\ pc' = "dl_storage"
            /\ UNCHANGED << log, seen, exit_status, exc >>
    /\ UNCHANGED << args, archive, published, dirs, fs, projects, project, storage_url,
                    release_url, run_ids, runs, output_dir, run_files,
                    already_downloaded, runs_to_download, queue, i, j,
                    invocation, start, prev >>

\* run, lines 75-96: "Get storage url", "Normalise storage url", output_dir
DlGetStorageUrl ==
    /\ pc = "dl_storage"
    /\ IF args.storage_url = NoneUrl
       THEN \E resp \in ConfigResponses :
              /\ log' = Append(log, Event("get_config", NoRun, "", 0))
              /\ seen' = [ seen EXCEPT !.storage = SeenStorage(resp) ]
              /\ storage_url' =
                    RStrip(IF resp.ok /\ resp.BASE # NoBase THEN resp.BASE ELSE DL_DEFAULT_URL)
                    \o << "benchmark_output", "releases" >>
       ELSE /\ storage_url' = RStrip(args.storage_url) \o << "benchmark_output", "releases" >>
            /\ UNCHANGED << log, seen >>
    /\ output_dir' = IF args.output_dir = << "None" >> THEN << "data", release >>
                     ELSE args.output_dir
    /\ pc' = "dl_run_specs"
    /\ UNCHANGED << args, archive, published, dirs, fs, projects, project, release,
                    release_url, run_ids, runs, run_files,
                    already_downloaded, runs_to_download, queue, i, j,
                    exit_status, exc, invocation, start, prev >>

\* lines 104-109: the run directory and the three files exist
dl_is_downloaded(disk, ds, od, run) ==
    /\ RunDir(od, run.id) \in ds
    /\ \A f \in Range(DL_FILES) : Exists(disk, FilePath(RunDir(od, run.id), f, ""))

\* run, lines 98-124: "Get run ids", "Manage already downloaded runs", the
\* creation of the output directory and the evaluation of the loop's iterable.
DlGetRunSpecs ==
    /\ pc = "dl_run_specs"
    /\ \E resp \in RunSpecsResponses(published) :
          LET r == RunIdsOf(resp)
              rs == [ k \in 1..Len(r.ids) |-> [ id |-> r.ids[k], suite |-> release ] ]
              done == { rs[k].id : k \in { m \in 1..Len(rs) :
                                             dl_is_downloaded(fs, dirs, output_dir, rs[m]) } }
          IN  /\ seen' = [ seen EXCEPT !.run_specs = SeenRunSpecs(resp) ]
              /\ IF r.exc = ""
                 THEN /\ runs' = rs
                      /\ run_files' = DL_FILES
                      /\ already_downloaded' = done
                      /\ runs_to_download' = SelectRuns(rs, done)
                      /\ queue' = SliceTo(SelectRuns(rs, done), args.max_runs)
                      /\ i' = 1
                      /\ dirs' = dirs \cup { << output_dir, << >> >> }
                      /\ log' = log \o << Event("get_run_specs", NoRun, "", 0),
                                          Event("mkdir_out", NoRun, "", 0) >>
                      /\ pc' = "dl_loop"
                      /\ UNCHANGED << exit_status, exc >>
                 ELSE \* nothing catches the exception, JSONDecodeError included
                      /\ Raise(r.exc)
                      /\ log' = Append(log, Event("get_run_specs", NoRun, "", 0))
                      /\ UNCHANGED << runs, run_files, already_downloaded,
                                      runs_to_download, queue, i, dirs >>
    /\ UNCHANGED << args, archive, published, fs, projects, project, release, storage_url,
                    release_url, run_ids, output_dir, j, invocation, start, prev >>

\* run, lines 125-141: one iteration of "Download runs": three requests, then
\* three writes, whatever the status of the responses; or the return from run.
DlDownloadRun ==
    /\ pc = "dl_loop"
    /\ IF i > Len(queue)
       THEN /\ pc' = "done"
            /\ exit_status' = 0
            /\ UNCHANGED << dirs, fs, i, log, exc >>
       ELSE IF args.dry_run
       THEN /\ i' = i + 1
            /\ UNCHANGED << pc, dirs, fs, log, exit_status, exc >>
       ELSE \E status \in [ 1..3 -> ArtifactResponses ] :
              LET run == queue[i]
                  dir == RunDir(output_dir, run.id)
                  gets == [ k \in 1..3 |-> Event("get", run.id, DL_FILES[k], status[k]) ]
                  writes == [ k \in 1..3 |-> Event("write", run.id, DL_FILES[k], status[k]) ]
                  first_error == { k \in 1..3 : status[k] = 0 /\ \A m \in 1..(k - 1) : status[m] # 0 }
              IN  /\ dirs' = dirs \cup { dir }
                  /\ IF first_error # { }
                     THEN \* requests.get raises at request k; nothing is written
                          /\ log' = log \o << Event("mkdir", run.id, "", 0) >>
                                        \o SubSeq(gets, 1, CHOOSE k \in first_error : TRUE)
                          /\ Raise("ConnectionError")
                          /\ UNCHANGED << fs, i >>
                     ELSE /\ log' = log \o << Event("mkdir", run.id, "", 0) >> \o gets \o writes
                          /\ fs' = [ q \in DOMAIN fs \cup { FilePath(dir, DL_FILES[k], "") : k \in 1..3 } |->
                                       IF \E k \in 1..3 : q = FilePath(dir, DL_FILES[k], "")
                                       THEN Content(status[CHOOSE k \in 1..3 :
                                                             q = FilePath(dir, DL_FILES[k], "")],
                                                    invocation)
                                       ELSE fs[q] ]
                          /\ i' = i + 1
                          /\ UNCHANGED << pc, exit_status, exc >>
    /\ UNCHANGED << args, archive, published, projects, project, release, storage_url,
                    release_url, run_ids, runs, output_dir, run_files,
                    already_downloaded, runs_to_download, queue, j,
                    invocation, seen, start, prev >>

DlNext ==
    \/ DlGetRelease
    \/ DlGetStorageUrl
    \/ DlGetRunSpecs
    \/ DlDownloadRun

SpecDownload == DlInit /\ [][DlNext]_vars

(***************************************************************************)
(* helm_data_downloader/heim.py and helm_data_downloader/helm.py: the two  *)
(* tools built on shared.py.  shared.RunInfo has the single field id, so   *)
(* RunInfo(id=..., suite=...) raises TypeError for the first listed run;   *)
(* shared.Args has no get_files, so helm.py raises AttributeError when the *)
(* listing is empty.                                                       *)
(***************************************************************************)
\* heim.py lines 84-92: the files of a run
HEIM_FILES == << "instances.json", "display_predictions.json" >>

\* A response to GET json-urls-root.js: the request raises, or the page has
\* no BENCHMARK_OUTPUT_BASE_URL, one without a release in it, or one with.
JsonUrlsResponses ==
    { [ ok |-> FALSE, BASE |-> NoBase ] }
    \cup [ ok : { TRUE },
           BASE : { NoBase, << "base", "/" >>,
                    << "nlp.stanford.edu", "helm", "v1.0.0", "benchmark_output", "/" >> } ]

\* re.search(r"(v\d+\.\d+\.\d+)", storage_url): the first release token, None if none
SemVerIn(url) ==
    IF \E k \in 1..Len(url) : IsSemVer(url[k])
    THEN url[CHOOSE k \in 1..Len(url) :
                 IsSemVer(url[k]) /\ \A m \in 1..(k - 1) : ~IsSemVer(url[m])]
    ELSE None

SharedArgs(project_name, files) ==
    [ project_id : { project_name },
      release : { "latest", "v1.0.0" },
      output_dir : { << "None" >>, << "out" >> },
      storage_url : { NoneUrl, << "mirror", "/", "/" >> },
      redownload : { FALSE },
      max_runs : { NoneInt },
      dry_run : BOOLEAN,
      files : { files } ]

SharedInit(project_name, files, first_pc) ==
    /\ args \in SharedArgs(project_name, files)
    /\ archive = "arbitrary"
    /\ published \in { t \in ManifestChoices : Len(t) <= 1 }
    /\ dirs = { }
    /\ fs = << >>
    /\ pc = first_pc
    /\ projects = << >>
    /\ project = ""
    /\ FreshLocals
    /\ exit_status = -1
    /\ exc = ""
    /\ log = << >>
    /\ invocation = 1
    /\ seen = NothingSeen
    /\ start = [ dirs |-> dirs, fs |-> fs ]
    /\ prev = NoPrev

HeimInit == SharedInit("heim", HEIM_FILES, "heim_release")

\* heim.run, lines 34-51: "Get semver"
HeimGetRelease ==
    /\ pc = "heim_release"
    /\ IF args.release = "latest"
       THEN \E resp \in JsonUrlsResponses :
              /\ log' = Append(log, Event("get_json_urls_root", NoRun, "", 0))
              /\ seen' = [ seen EXCEPT !.release =
                             [ asked |-> TRUE, ok |-> resp.ok, RELEASE |-> None, SUITE |-> None ] ]
              /\ storage_url' = IF resp.ok /\ resp.BASE # NoBase THEN resp.BASE
                                 ELSE storage_url
              /\ IF resp.ok /\ resp.BASE # NoBase /\ SemVerIn(resp.BASE) # None
                 THEN /\ release' = SemVerIn(resp.BASE)
                      /\ pc' = "heim_storage"
                      /\ UNCHANGED << exit_status, exc >>
                 ELSE /\ Exit1
                      /\ UNCHANGED release
       ELSE /\ release' = args.release
            /\ pc' = "heim_storage"
            /\ UNCHANGED << log, seen, storage_url, exit_status, exc >>
    /\ UNCHANGED << args, archive, published, dirs, fs, projects, project,
                    release_url, run_ids, runs, output_dir, run_files,
                    already_downloaded, runs_to_download, queue, i, j,
                    invocation, start, prev >>

\* heim.run, lines 53-76: "Get storage url", "Normalise storage url", output_dir
HeimGetStorageUrl ==
    /\ pc = "heim_storage"
    /\ IF args.storage_url = NoneUrl
       THEN \E resp \in JsonUrlsResponses :
              /\ log' = Append(log, Event("get_json_urls_root", NoRun, "", 0))
              /\ seen' = [ seen EXCEPT !.storage = SeenStorage(resp) ]
              /\ storage_url' =
                    RStrip(IF resp.ok /\ resp.BASE # NoBase THEN resp.BASE
                           ELSE << "nlp.stanford.edu", "helm", release, "benchmark_output" >>)
       ELSE /\ storage_url' = RStrip(args.storage_url)
            /\ UNCHANGED << log, seen >>
    /\ output_dir' = IF args.output_dir = << "None" >> THEN << "heim-data", release >>
                     ELSE args.output_dir
    /\ pc' = "heim_run_specs"
    /\ UNCHANGED << args, archive, published, dirs, fs, projects, project, release,
                    release_url, run_ids, runs, run_files,
                    already_downloaded, runs_to_download, queue, i, j,
                    exit_status, exc, invocation, start, prev >>

\* requests.get(...).json() followed by
\* [RunInfo(id=run_spec["name"], suite=semver) for run_spec in run_specs]:
\* the exception raised, "" if none (the listing is empty then).
SharedRunsOf(resp) ==
    CASE resp.type = "connerr" -> "ConnectionError"
      [] resp.type = "nonjson" -> "JSONDecodeError"
      [] resp.type = "null" -> "TypeError"
      [] resp.type = "dict" -> IF resp.items = << >> THEN "" ELSE "TypeError"
      [] OTHER ->
            IF resp.items = << >> THEN ""
            ELSE IF ~resp.items[1].has_name THEN "KeyError"
            ELSE "TypeError"

\* heim.run, lines 78-132: "Get run ids" and, when the listing is empty, the
\* plan, the creation of the output directory and the loop over no run.
HeimGetRunSpecs ==
    /\ pc = "heim_run_specs"
    /\ \E resp \in RunSpecsResponses(published) :
          /\ seen' = [ seen EXCEPT !.run_specs = SeenRunSpecs(resp) ]
          /\ IF SharedRunsOf(resp) = ""
             THEN /\ run_files' = HEIM_FILES
                  /\ i' = 1
                  /\ dirs' = dirs \cup { << output_dir, << >> >> }
                  /\ log' = log \o << Event("get_run_specs", NoRun, "", 0),
                                      Event("mkdir_out", NoRun, "", 0) >>
                  /\ pc' = "done"
                  /\ exit_status' = 0
                  /\ UNCHANGED exc
             ELSE /\ Raise(SharedRunsOf(resp))
                  /\ log' = Append(log, Event("get_run_specs", NoRun, "", 0))
                  /\ UNCHANGED << run_files, i, dirs >>
    /\ UNCHANGED << args, archive, published, fs, projects, project, release, storage_url,
                    release_url, run_ids, runs, output_dir, already_downloaded,
                    runs_to_download, queue, j, invocation, start, prev >>

HeimNext ==
    \/ HeimGetRelease
    \/ HeimGetStorageUrl
    \/ HeimGetRunSpecs

SpecHeim == HeimInit /\ [][HeimNext]_vars

HelmInit == SharedInit("classic", << >>, "helm_release")

\* helm.run, lines 42-57: "Get semver"
HelmGetRelease ==
    /\ pc = "helm_release"
    /\ IF args.release = "latest"
       THEN \E resp \in ConfigResponses :
              /\ log' = Append(log, Event("get_config", NoRun, "", 0))
              /\ seen' = [ seen EXCEPT !.release = SeenRelease(resp) ]
              /\ IF resp.ok /\ resp.RELEASE # None /\ IsSemVer(resp.RELEASE)
                 THEN /\ release' = resp.RELEASE
                      /\ pc' = "helm_storage"
                      /\ UNCHANGED << exit_status, exc >>
                 ELSE /\ Exit1
                      /\ UNCHANGED release
       ELSE /\ release' = args.release
            /\ pc' = "helm_storage"
            /\ UNCHANGED << log, seen, exit_status, exc >>
    /\ UNCHANGED << args, archive, published, dirs, fs, projects, project, storage_url,
                    release_url, run_ids, runs, output_dir, run_files,
                    already_downloaded, runs_to_download, queue, i, j,
                    invocation, start, prev >>

\* helm.run, lines 59-81: "Get storage url", "Normalise storage url"
HelmGetStorageUrl ==
    /\ pc = "helm_storage"
    /\ IF args.storage_url = NoneUrl
       THEN \E resp \in ConfigResponses :
              LET base == IF resp.ok /\ resp.BASE # NoBase THEN resp.BASE
                          ELSE DL_DEFAULT_URL IN
              /\ log' = Append(log, Event("get_config", NoRun, "", 0))
              /\ seen' = [ seen EXCEPT !.storage = SeenStorage(resp) ]
              /\ storage_url' = RStrip(base)
              /\ release_url' = RStrip(base) \o << "releases", release >>
       ELSE /\ storage_url' = RStrip(args.storage_url)
            /\ release_url' = RStrip(args.storage_url) \o << "releases", release >>
            /\ UNCHANGED << log, seen >>
    /\ pc' = "helm_run_specs"
    /\ UNCHANGED << args, archive, published, dirs, fs, projects, project, release,
                    run_ids, runs, output_dir, run_files,
                    already_downloaded, runs_to_download, queue, i, j,
                    exit_status, exc, invocation, start, prev >>

\* helm.run, lines 83-94: "Get run ids"
HelmGetRunSpecs ==
    /\ pc = "helm_run_specs"
    /\ \E resp \in RunSpecsResponses(published) :
          LET r == RunIdsOf(resp) IN
          /\ log' = Append(log, Event("get_run_specs", NoRun, "", 0))
          /\ seen' = [ seen EXCEPT !.run_specs = SeenRunSpecs(resp) ]
          /\ IF r.exc = ""
             THEN /\ run_ids' = r.ids
                  /\ pc' = "helm_suites"
                  /\ UNCHANGED << exit_status, exc >>
             ELSE /\ IF r.exc = "JSONDecodeError" THEN Exit1 ELSE Raise(r.exc)
                  /\ UNCHANGED run_ids
    /\ UNCHANGED << args, archive, published, dirs, fs, projects, project, release,
                    storage_url, release_url, runs, output_dir, run_files,
                    already_downloaded, runs_to_download, queue, i, j,
                    invocation, start, prev >>

\* requests.get(...).json(), [RunInfo(id=id, suite=runs_to_run_suites[id]) for
\* id in run_ids] and, for an empty listing, args.get_files(): the exception
\* raised (there always is one).
HelmSuitesExc(resp, ids) ==
    CASE resp.type = "connerr" -> "ConnectionError"
      [] resp.type = "nonjson" -> "JSONDecodeError"
      [] ids = << >> -> "AttributeError"
      [] resp.type = "list" -> "TypeError"
      [] OTHER -> IF ids[1] \notin resp.keys THEN "KeyError" ELSE "TypeError"

\* helm.run, lines 96-112: "Get run to suite mapping", output_dir, run_files
HelmGetSuites ==
    /\ pc = "helm_suites"
    /\ \E resp \in SuitesResponses :
          /\ log' = Append(log, Event("get_suites", NoRun, "", 0))
          /\ seen' = [ seen EXCEPT !.suites = SeenSuites(resp, run_ids) ]
          /\ Raise(HelmSuitesExc(resp, run_ids))
          /\ output_dir' =
                IF HelmSuitesExc(resp, run_ids) # "AttributeError" THEN output_dir
                ELSE IF args.output_dir = << "None" >> THEN << "helm-data", release >>
                ELSE args.output_dir
    /\ UNCHANGED << args, archive, published, dirs, fs, projects, project, release,
                    storage_url, release_url, run_ids, runs, run_files,
                    already_downloaded, runs_to_download, queue, i, j,
                    invocation, start, prev >>

HelmNext ==
    \/ HelmGetRelease
    \/ HelmGetStorageUrl
    \/ HelmGetRunSpecs
    \/ HelmGetSuites

SpecHelm == HelmInit /\ [][HelmNext]_vars

(***************************************************************************)
(* helmdd run on listings of two runs with arbitrary ids over a small      *)
(* alphabet: RunInfo.path_safe_id at work in download_project.             *)
(***************************************************************************)
\* The characters : , = / % and the letter a, which is also a hex digit.
IdAlphabet == { 58, 44, 61, 47, 37, 97 }

IdsUpTo(n) == UNION { [ 1..m -> IdAlphabet ] : m \in 0..n }

\* helmdd --project heim --release v1 --output-dir out --storage-url mirror
\*        --files scenario_state.json instances.json
PathSafeArgs ==
    [ project_id |-> "heim", release |-> "v1", output_dir |-> << "out" >>,
      storage_url |-> << "mirror" >>, redownload |-> FALSE, max_runs |-> NoneInt,
      dry_run |-> FALSE, files |-> << "scenario_state.json", "instances.json" >> ]

\* The tool is started on a clean disk; the archive lists two distinct runs.
PathSafeInit ==
    /\ \E id \in IdsUpTo(MaxIdLen), other \in IdsUpTo(MaxIdLen - 2) :
          /\ id # other
          /\ published = << id, other >>
    /\ args = PathSafeArgs
    /\ archive = "well_formed"
    /\ dirs = { }
    /\ fs = << >>
    /\ pc = "run"
    /\ projects = ProjectsOf(args)
    /\ project = ""
    /\ FreshLocals
    /\ exit_status = -1
    /\ exc = ""
    /\ log = << >>
    /\ invocation = 1
    /\ seen = NothingSeen
    /\ start = [ dirs |-> dirs, fs |-> fs ]
    /\ prev = NoPrev

SpecPathSafe == PathSafeInit /\ [][NextOnce]_vars

(***************************************************************************)
(* Vocabulary of the properties.                                           *)
(***************************************************************************)
\* download_project has computed its plan (i is 0 until it has).
Planned == i > 0

\* positions in the log of the artifact requests
Gets(l) == { m \in 1..Len(l) : l[m].op = "get" }

\* the files every run must have
Required == IF args.files = << "all" >> THEN Range(FILES) ELSE Range(args.files)

\* Every required file of the run was on disk when the invocation started.
HasAllAtStart(id) ==
    \A f \in Required : << output_dir, JoinDir(path_safe_id(id)), f, "" >> \in DOMAIN start.fs

ManifestIds == { runs[k].id : k \in 1..Len(runs) }

PendingIds == { runs_to_download[k].id : k \in 1..Len(runs_to_download) }

QueueIds == { queue[k].id : k \in 1..Len(queue) }

FetchedIds == { log[m].run : m \in Gets(log) }

(***************************************************************************)
(* Properties.                                                             *)
(***************************************************************************)
\* C1 (as stated): with --redownload, the runs planned for download, before
\* the --max-runs cap, are all the runs of the manifest, whatever is on disk.
C1_RedownloadPlansFullManifest ==
    (Planned /\ args.redownload) => PendingIds = ManifestIds

\* The second of two invocations that ran without --redownload, --dry-run and
\* --max-runs, the first having returned normally, and that sees the same
\* manifest, output directory and required files.
ResumeAfterSuccess ==
    /\ prev.valid
    /\ prev.pc = "done"
    /\ prev.failed = { }
    /\ ~prev.dry_run
    /\ ~args.redownload
    /\ ~args.dry_run
    /\ args.max_runs.none
    /\ Planned
    /\ runs = prev.runs
    /\ output_dir = prev.output_dir
    /\ run_files = prev.run_files

\* C2: after an invocation that downloaded everything, the next invocation
\* has nothing pending, requests no artifact and leaves every file as it was.
C2_IdempotentResume ==
    ResumeAfterSuccess =>
        /\ runs_to_download = << >>
        /\ Gets(log) = { }
        /\ fs = start.fs
        /\ dirs = start.dirs

C2_Witness ==
    /\ ResumeAfterSuccess
    /\ pc = "done"
    /\ Len(runs) >= 2
    /\ \E path \in DOMAIN fs : fs[path].inv = invocation - 1

\* The body of run_specs.json is not a JSON array of objects with a name.
BadRunSpecs ==
    /\ seen.run_specs.asked
    /\ seen.run_specs.type # "connerr"
    /\ ~( /\ seen.run_specs.type = "list"
          /\ \A k \in 1..Len(seen.run_specs.items) : seen.run_specs.items[k].has_name )

\* The body of runs_to_run_suites.json is not JSON, or has no entry for a run.
BadSuites ==
    /\ seen.suites.asked
    /\ \/ seen.suites.type = "nonjson"
       \/ seen.suites.type \in { "dict", "list" } /\ seen.suites.missing # { }

\* C3 (as stated): a malformed run_specs.json or runs_to_run_suites.json ends
\* the invocation with a non-zero exit status, no artifact requested and no
\* file written.
C3_ManifestFailureHalts ==
    (BadRunSpecs \/ BadSuites) =>
        /\ pc \in { "exited", "raised" }
        /\ exit_status # 0
        /\ Gets(log) = { }
        /\ fs = start.fs

\* C4 (as stated): with --dry-run no directory is created, no file is
\* written and no artifact is requested.
C4_DryRunPurity ==
    args.dry_run =>
        /\ dirs = start.dirs
        /\ fs = start.fs
        /\ Gets(log) = { }

\* C5 (as stated): when no --storage-url is given and config.js cannot be
\* fetched or has no BENCHMARK_OUTPUT_BASE_URL, a default URL is used and the
\* invocation goes on.
C5_StorageFallback ==
    (seen.storage.asked /\ ~(seen.storage.ok /\ seen.storage.BASE # NoBase)) =>
        /\ storage_url # Unbound
        /\ exc # "UnboundLocalError"

\* The release token config.js holds for the project, None if it has none.
ReleaseToken == IF project = "heim" THEN seen.release.SUITE ELSE seen.release.RELEASE

\* --project names a project outside PROJECTS, and line 114 was reached.
UnknownProjectRejected ==
    /\ project # ""
    /\ project \notin Range(PROJECTS)

ReleaseLookupFailed ==
    /\ args.release = "latest"
    /\ seen.release.asked
    /\ (~seen.release.ok \/ ReleaseToken = None)

\* C6: with --release latest, a config.js that cannot be fetched or holds no
\* release for the project ends the invocation with exit status 1 before
\* anything else is requested or written, and no release is made up; any
\* other --release value is used as it is, without a request, by every
\* download_project that gets past its project check.
C6_ReleaseResolution ==
    /\ ReleaseLookupFailed =>
          /\ pc = "exited"
          /\ exit_status = 1
          /\ release = ""
          /\ log = << Event("get_config", NoRun, "", 0) >>
          /\ fs = start.fs
          /\ dirs = start.dirs
    /\ (args.release = "latest" /\ release # "") =>
          /\ seen.release.ok
          /\ release = ReleaseToken
    /\ args.release # "latest" =>
          /\ ~seen.release.asked
          /\ release \in { "", args.release }
          /\ (pc \notin { "run", "release" } /\ ~UnknownProjectRejected) =>
                release = args.release

C6_Witness ==
    /\ ReleaseLookupFailed
    /\ project = "heim"
    /\ seen.release.ok
    /\ seen.release.RELEASE # None
    /\ pc = "exited"

\* The runs that lacked a required file when the invocation started.
IncompleteIds == { id \in ManifestIds : ~HasAllAtStart(id) }

\* C7: with --max-runs k, k >= 0, the queue holds the min(k, number pending)
\* smallest pending ids in ascending order, whatever the order of the
\* listing, and an invocation that returns has fetched exactly those runs.
C7_DeterminismUnderCap ==
    (Planned /\ ~args.max_runs.none /\ args.max_runs.n >= 0) =>
        /\ Len(queue) = Min(args.max_runs.n, Cardinality(IncompleteIds))
        /\ QueueIds \subseteq IncompleteIds
        /\ \A a, b \in 1..Len(queue) : a < b => LexLess(queue[a].id, queue[b].id)
        /\ \A x \in IncompleteIds \ QueueIds : \A y \in QueueIds : LexLess(y, x)
        /\ (pc = "done" /\ ~args.dry_run) => FetchedIds = QueueIds

C7_Witness ==
    /\ Planned
    /\ args.max_runs = SomeInt(1)
    /\ ~args.dry_run
    /\ pc = "done"
    /\ Len(runs_to_download) >= 2
    /\ LexLess(runs[2].id, runs[1].id)
    /\ FetchedIds = { runs[2].id }

\* C8: a run lacking a required file is never counted as already downloaded
\* and is always pending; a run is counted as already downloaded only if
\* every required file exists in its directory.
C8_PartialCompleteness ==
    Planned =>
        \A k \in 1..Len(runs) :
            /\ ~HasAllAtStart(runs[k].id) =>
                  /\ runs[k].id \notin already_downloaded
                  /\ runs[k].id \in PendingIds
            /\ runs[k].id \in already_downloaded => HasAllAtStart(runs[k].id)

C8_Witness ==
    /\ Planned
    /\ \E k \in 1..Len(runs) :
          /\ RunDir(output_dir, runs[k].id) \in start.dirs
          /\ \E f \in Required :
                << output_dir, JoinDir(path_safe_id(runs[k].id)), f, "" >> \in DOMAIN start.fs
          /\ ~HasAllAtStart(runs[k].id)
          /\ runs[k].id \in PendingIds
          /\ runs[k].id \notin already_downloaded

\* C9 (as stated): the body of a non-success response is written only to
\* {file_name}.error; no artifact file holds such a body.
C9_ErrorNeverStoredAsArtifact ==
    /\ \A path \in DOMAIN fs : path[4] = "" => fs[path].status = 200
    /\ \A m \in 1..Len(log) : log[m].op = "write" => log[m].status = 200

\* C10 (as stated): a non-success response does not stop the batch: when the
\* invocation ends, every run of the queue has had an artifact requested.
C10_RecordAndContinue ==
    (Terminated /\ Planned /\ ~args.dry_run /\ exc \in { "", "Exception" }) =>
        \A a \in 1..Len(queue) : queue[a].id \in FetchedIds

\* C10 (amended): a non-success response stops the batch.  Its body is in
\* {file_name}.error, the invocation has ended with an exception, it was the
\* last request, the runs before the failing one were fetched completely and
\* the runs after it not at all.  An invocation that returns has fetched
\* every file of every run of the queue.
C10_FailureStopsBatch ==
    /\ \A m \in Gets(log) :
          log[m].status \notin { 200, 0 } =>
              /\ pc = "raised"
              /\ exc = "Exception"
              /\ \A n \in Gets(log) : n <= m
              /\ i \in 1..Len(queue)
              /\ log[m].run = queue[i].id
              /\ << output_dir, JoinDir(path_safe_id(log[m].run)), log[m].file, ".error" >>
                    \in DOMAIN fs
              /\ \A a \in 1..(i - 1) : \A f \in Range(run_files) :
                    \E n \in Gets(log) :
                        log[n].run = queue[a].id /\ log[n].file = f /\ log[n].status = 200
              /\ \A a \in (i + 1)..Len(queue) : queue[a].id \notin FetchedIds
    /\ (pc = "done" /\ Planned /\ ~args.dry_run) =>
          \A a \in 1..Len(queue) : \A f \in Range(run_files) :
              \E n \in Gets(log) :
                  log[n].run = queue[a].id /\ log[n].file = f /\ log[n].status = 200

C10_Witness ==
    /\ pc = "raised"
    /\ exc = "Exception"
    /\ i = 1
    /\ Len(queue) >= 2
    /\ queue[2].id \notin FetchedIds
    /\ \E m \in Gets(log) : log[m].status = 404

\* run_specs.json could not be fetched or read: the request, .json() or the
\* comprehension of line 167 raised.
RunSpecsRaised ==
    /\ seen.run_specs.asked
    /\ RunIdsOf([ type |-> seen.run_specs.type, items |-> seen.run_specs.items ]).exc # ""

\* runs_to_run_suites.json could not be fetched or read, or lacks a listed run.
SuitesRaised ==
    /\ seen.suites.asked
    /\ (seen.suites.type \in { "connerr", "nonjson" } \/ seen.suites.missing # { })

ManifestFetchFailed == RunSpecsRaised \/ SuitesRaised

StorageLookupFailed ==
    /\ seen.storage.asked
    /\ ~(seen.storage.ok /\ seen.storage.BASE # NoBase)

\* --files names a file outside the catalog, and line 183 was reached.
UnknownFileRejected ==
    /\ output_dir # << >>
    /\ args.files # << "all" >>
    /\ ~(Range(args.files) \subseteq Range(FILES))

\* C11 (as stated): the exit status is non-zero when release resolution or
\* the manifest fetch fails, and zero in every other case, a non-success
\* artifact response included.
C11_ExitStatusAsStated ==
    Terminated => (exit_status # 0 <=> (ReleaseLookupFailed \/ ManifestFetchFailed))

\* C11 (amended): the exit status is 0 only when run returns, every project
\* done and every artifact requested answered with 200; it is 1 when release
\* resolution or the manifest fetch failed, when --project or --files named
\* something unknown, and when an artifact request raised or was answered
\* with a status other than 200.
C11_ExitStatus ==
    Terminated =>
        /\ exit_status \in { 0, 1 }
        /\ exit_status = 0 <=> pc = "done"
        /\ exit_status = 0 =>
              /\ projects = << >>
              /\ \A m \in Gets(log) : log[m].status = 200
        /\ (\/ ReleaseLookupFailed
            \/ ManifestFetchFailed
            \/ UnknownProjectRejected
            \/ UnknownFileRejected
            \/ FailedRuns(log) # { }) => exit_status = 1

C11_Witness ==
    /\ pc = "raised"
    /\ exit_status = 1
    /\ ~ReleaseLookupFailed
    /\ ~StorageLookupFailed
    /\ ~ManifestFetchFailed
    /\ \E m \in Gets(log) : log[m].status = 404 /\ m > 1

\* urllib.parse.unquote on ASCII text: %XX with two hex digits becomes the
\* character XX, everything else stays.
IsHex(c) == c \in 48..57 \/ c \in 65..70 \/ c \in 97..102

HexVal(c) == IF c \in 48..57 THEN c - 48 ELSE IF c \in 65..70 THEN c - 55 ELSE c - 87

RECURSIVE Unquote(_)
Unquote(s) ==
    IF s = << >> THEN << >>
    ELSE IF Head(s) = 37 /\ Len(s) >= 3 /\ IsHex(s[2]) /\ IsHex(s[3])
    THEN << 16 * HexVal(s[2]) + HexVal(s[3]) >> \o Unquote(SubSeq(s, 4, Len(s)))
    ELSE << Head(s) >> \o Unquote(Tail(s))

\* C12: path_safe_id(id) holds no '/', percent-decoding it gives id back, and
\* two distinct ids have two distinct run directories: an invocation that
\* returns has made both and keeps every file of both runs.
C12_PathSafeRoundTrip ==
    /\ \A k \in 1..Len(runs) :
          /\ 47 \notin Range(path_safe_id(runs[k].id))
          /\ Unquote(path_safe_id(runs[k].id)) = runs[k].id
    /\ Planned =>
          \A a, b \in 1..Len(runs) :
              a # b => RunDir(output_dir, runs[a].id) # RunDir(output_dir, runs[b].id)
    /\ (pc = "done" /\ Planned) =>
          /\ \A a \in 1..Len(queue) :
                /\ RunDir(output_dir, queue[a].id) \in dirs
                /\ \A f \in Range(run_files) :
                      FilePath(RunDir(output_dir, queue[a].id), f, "") \in DOMAIN fs
          /\ Cardinality(DOMAIN fs) = Len(queue) * Len(run_files)

C12_Witness ==
    /\ pc = "done"
    /\ Len(runs) = 2
    /\ runs[1].id = << 37, 97, 97 >>
    /\ runs[2].id = << 47 >>
    /\ << output_dir, << 37, 50, 53, 97, 97 >> >> \in dirs
    /\ << output_dir, << 37, 50, 70 >> >> \in dirs
    /\ Cardinality(DOMAIN fs) = 4

\* An invocation that follows another one and sees the same manifest, output
\* directory and required files.
SameManifestAgain ==
    /\ prev.valid
    /\ Planned
    /\ runs = prev.runs
    /\ output_dir = prev.output_dir
    /\ run_files = prev.run_files

\* C13 (as stated): a run for which an artifact request was answered with a
\* status other than 200 is, in the next invocation, not counted as already
\* downloaded and is pending again, whatever its directory held before and
\* whatever the order of the required files.
C13_FailedRunsRetried ==
    SameManifestAgain =>
        \A r \in prev.refused : r \notin already_downloaded /\ r \in PendingIds

\* s[:n] read as "the first n entries": nothing when n is not positive.
FirstEntries(s, n) == SubSeq(s, 1, Min(Max(n, 0), Len(s)))

\* C14 (as stated): with --max-runs n, for every integer n, the queue is the
\* first n entries of the sorted pending list (none when n is not positive)
\* and no more than that many runs have an artifact requested; without --max-runs the queue is the whole pending
\* list and an invocation that returns has requested every pending run.
C14_CapOnRunCount ==
    Planned =>
        /\ ~args.max_runs.none =>
              /\ queue = FirstEntries(runs_to_download, args.max_runs.n)
              /\ Cardinality(FetchedIds) <= Max(args.max_runs.n, 0)
        /\ args.max_runs.none =>
              /\ queue = runs_to_download
              /\ (pc = "done" /\ ~args.dry_run) => FetchedIds = PendingIds

\* the directory a file path lies in
DirOf(path) == << path[1], path[2] >>

\* files that this invocation created or wrote
WrittenPaths == { path \in DOMAIN fs : path \notin DOMAIN start.fs \/ fs[path] # start.fs[path] }

\* C15: every artifact request and every write of a run follows the creation
\* of that run's directory, which exists from then on (creating it when it
\* is already there is not an error), and every file written lies directly
\* in the directory of a run of the queue.
C15_DirectoryBeforeWrite ==
    LET touched == { m \in 1..Len(log) : log[m].op \in { "get", "write", "write_error" } }
        made == { m \in 1..Len(log) : log[m].op = "mkdir" }
        queued == { RunDir(output_dir, queue[a].id) : a \in 1..Len(queue) }
    IN  /\ \A m \in touched :
              /\ \E n \in made : n < m /\ log[n].run = log[m].run
              /\ log[m].run \in QueueIds
        /\ \A a \in 1..Len(queue) :
              (\E m \in touched : log[m].run = queue[a].id) \/ (pc = "fetch" /\ a = i)
                  => RunDir(output_dir, queue[a].id) \in dirs
        /\ \A path \in DOMAIN fs :
              (path \notin DOMAIN start.fs \/ fs[path] # start.fs[path]) =>
                  /\ DirOf(path) \in dirs
                  /\ DirOf(path) \in queued

\* Two runs were fetched, one whose directory was there before and one whose
\* directory was not.
C15_Witness ==
    /\ pc = "done"
    /\ Len(queue) >= 2
    /\ RunDir(output_dir, queue[1].id) \in start.dirs
    /\ RunDir(output_dir, queue[2].id) \notin start.dirs
    /\ \A a \in 1..Len(queue) :
          \E path \in WrittenPaths : DirOf(path) = RunDir(output_dir, queue[a].id)

\* C16: without --redownload, a run counted as already downloaded has no
\* artifact requested, and its directory holds the same files with the same
\* contents as when the invocation started, however the invocation ends.
C16_CompleteRunsUntouched ==
    (Planned /\ ~args.redownload /\ already_downloaded # { }) =>
        LET complete == { RunDir(output_dir, id) : id \in already_downloaded }
        IN  /\ already_downloaded \cap FetchedIds = { }
            /\ \A m \in 1..Len(log) : log[m].run \notin already_downloaded
            /\ \A path \in DOMAIN fs \cup DOMAIN start.fs :
                  DirOf(path) \in complete =>
                      /\ path \in DOMAIN fs
                      /\ path \in DOMAIN start.fs
                      /\ fs[path] = start.fs[path]

\* A complete run next to an incomplete one whose download failed.
C16_Witness ==
    /\ Planned
    /\ ~args.redownload
    /\ pc = "raised"
    /\ exc = "Exception"
    /\ already_downloaded # { }
    /\ WrittenPaths # { }
    /\ \E id \in already_downloaded :
          \E path \in DOMAIN start.fs : DirOf(path) = RunDir(output_dir, id)

\* The projects are taken in the order of PROJECTS: the current one is the
\* k-th and the ones still to come are those after it; run is between two
\* projects only when the loop of the previous one has walked its whole queue.
InProjectsOrder ==
    \E k \in 0..Len(PROJECTS) :
        /\ project = (IF k = 0 THEN "" ELSE PROJECTS[k])
        /\ projects = SubSeq(PROJECTS, k + 1, Len(PROJECTS))
        /\ (pc = "run" /\ k > 0) => (Planned /\ i = Len(queue) + 1)
        /\ pc = "done" => k = Len(PROJECTS)

\* One step of an invocation: a project starts only from run, and it is the
\* next of the list; a request or file-system call belongs to the project
\* under way; after sys.exit or an uncaught exception nothing happens but a
\* new invocation.
SequencingStep ==
    /\ (project' # project /\ invocation' = invocation) =>
          /\ pc = "run"
          /\ projects # << >>
          /\ project' = Head(projects)
          /\ projects' = Tail(projects)
          /\ log' = log
    /\ (log' # log /\ invocation' = invocation) =>
          /\ project' = project
          /\ pc \in { "release", "storage", "run_specs", "suites", "plan", "loop", "fetch" }
          /\ Len(log') > Len(log)
          /\ SubSeq(log', 1, Len(log)) = log
    /\ pc \in { "exited", "raised" } => invocation' = invocation + 1

\* C17: with --project all the projects are processed in the order classic,
\* heim, lite, instruct, one after the other has returned, and once
\* download_project has exited or raised nothing is requested for a later
\* project in that invocation.
C17_MultiProjectSequencing ==
    [](args.project_id = "all" => InProjectsOrder) /\ [][SequencingStep]_vars

\* classic was downloaded, heim failed on an artifact, lite was never started.
C17_Witness ==
    /\ args.project_id = "all"
    /\ pc = "raised"
    /\ exc = "Exception"
    /\ project = "heim"
    /\ projects = << "lite", "instruct" >>
    /\ Cardinality({ m \in Gets(log) : log[m].status = 200 }) >= Len(run_files) * MaxRuns

====
